---- MODULE Spec2Model ----
(***************************************************************************)
(* Behavioural model of the lit-ui-kit components.                         *)
(*                                                                         *)
(* Part 1: the <ui-modal> element (components/modal/modal.ts): the open    *)
(* property and its reactive update, the native <dialog> it drives, the    *)
(* cancellable close protocol, the focus bookkeeping and the tab cycle.    *)
(*                                                                         *)
(* One action is one handler or one task of the browser's event loop:      *)
(* a property write, the reactive update (a microtask), an animation       *)
(* frame callback, a timer callback, a DOM event with its default action.  *)
(***************************************************************************)
EXTENDS Integers, Sequences, FiniteSets

(***************************************************************************)
(* Bounds of the model.                                                    *)
(***************************************************************************)
MaxContent == 2     \* focusable candidates the host can slot into the modal
MaxFrames == 1      \* animation-frame callbacks that can be pending at once
MaxQueued == 1      \* native 'close' event tasks that can be pending at once

(***************************************************************************)
(* Elements that can hold focus.  "trigger" and "body" live outside the    *)
(* modal; "host" stands for focus inside the modal's shadow tree (the      *)
(* close button or the dialog itself), which document.activeElement        *)
(* reports as the host element; ElementNames are the light-DOM children    *)
(* that match the focusable selectors, in document order.                  *)
(***************************************************************************)
Null == "null"
ElementNames == <<"e1", "e2", "e3", "e4", "e5">>
Content == { ElementNames[i] : i \in 1..MaxContent }
Outside == {"trigger", "body"}
Inside == Content \cup {"host"}

CloseReason == {"escape", "backdrop", "button", "programmatic"}

(* Values a caller can hand to close(): nothing, or the number 1. *)
ReturnValues == {"undefined", "num1"}

VARIABLES
    open,                     \* Modal.open (reactive property)
    changedOpen,              \* a reactive update is pending and changedProperties has 'open'
    closeOnBackdrop,          \* Modal.closeOnBackdrop
    closeOnEscape,            \* Modal.closeOnEscape
    preventClose,             \* Modal.preventClose
    connected,                \* the element is in the document (keydown listener attached)
    dialogOpen,               \* the native dialog is shown (has its open attribute)
    nativePreviouslyFocused,  \* the element the platform remembered in showModal()
    closeQueued,              \* native 'close' events queued and not yet dispatched
    frames,                   \* pending requestAnimationFrame callbacks, oldest first
    timers,                   \* pending setTimeout(0) callbacks of _restoreFocus
    previouslyFocusedElement, \* Modal._previouslyFocusedElement
    focusableElements,        \* Modal._focusableElements
    currentFocusIndex,        \* Modal._currentFocusIndex (0-based)
    activeElement,            \* document.activeElement
    present,                  \* light-DOM children matching the focusable selectors
    emitted,                  \* the events the last handler dispatched, in order
    listening,                \* the page listens to ui-modal-open and ui-modal-close on the host
    lastLogged,               \* which of the two that listener heard last, "none" at first
    last                      \* the last handler that ran, with its inputs

(* What a caller of the modal's public methods holds. *)
VARIABLES
    returnedArray,            \* the array handed out by getFocusableElements(), as the caller sees it
    returnedIsInternal        \* that array is the very object behind Modal._focusableElements

(* An input-like component (Input, PasswordInput or Checkbox) and the      *)
(* platform objects it works with.                                         *)
VARIABLES
    kind,                     \* which component class the element is
    platform,                 \* how attachInternals() behaves in the hosting environment
    constructed,              \* "no", "yes", or "threw" when the constructor chain threw
    internals,                \* FormAssociatedElement.internals
    required,                 \* the required property
    failing,                  \* the constraints, besides required, that the text "bad" fails
    value,                    \* FormAssociatedElement._value
    formValue,                \* the value last pushed through a handle with setFormValue
    handleFlags,              \* the validity flags last pushed through a handle with setValidity
    errorMessage,             \* the errorMessage property
    validationError,          \* the private flag _validationError
    isVisible,                \* PasswordInput._isVisible
    checked,                  \* Checkbox.checked
    indeterminate,            \* Checkbox.indeterminate
    updatePending,            \* a reactive update (render) of the component is pending
    inputRendered,            \* the shadow tree holds the native input (first render done)
    nativeValue,              \* the native input's value
    nativeChecked             \* the native checkbox's checkedness

(* What the Checkbox adds for its clicks, and the clock it reads. *)
VARIABLES
    disabled,                 \* UiElement.disabled
    valueAttribute,           \* the value attribute of the markup, "null" when there is none
    lastClickTime,            \* Checkbox._lastClickTime, 0 while undefined
    lastToggleTime,           \* when checked was last inverted by a handler, 0 if never
    now                       \* Date.now(), in units of 100 ms

(* The theme handling every UiElement carries. *)
VARIABLES
    theme,                    \* UiElement.theme
    themeChanged,             \* a reactive update is pending and changedProperties has 'theme'
    hostConnected,            \* the element is in the document
    everConnected,            \* connectedCallback ran at least once (updates are enabled)
    mediaQuery,               \* UiElement._mediaQuery: 0 while undefined, else the object's identity
    registered,               \* the MediaQueryList objects that hold _handleSystemThemeChange
    prefersDark,              \* the system colour scheme is dark
    dataTheme                 \* the data-theme attribute of the element

(* An Alert and its auto-dismiss timers. *)
VARIABLES
    variant,                  \* Alert.variant
    dismissible,              \* Alert.dismissible
    inDocument,               \* the alert is in the document
    dismissTimers,            \* pending setTimeout callbacks of autoDismiss, oldest first
    started,                  \* autoDismiss() calls made so far
    resolved                  \* the autoDismiss() calls whose promise is resolved

config == <<closeOnBackdrop, closeOnEscape, preventClose>>
dialogVars == <<dialogOpen, nativePreviouslyFocused, closeQueued>>
focusVars == <<focusableElements, currentFocusIndex>>
taskVars == <<frames, timers>>
apiVars == <<returnedArray, returnedIsInternal>>
modalVars == <<open, changedOpen, closeOnBackdrop, closeOnEscape, preventClose, connected,
               dialogOpen, nativePreviouslyFocused, closeQueued,
               frames, timers, previouslyFocusedElement, focusableElements,
               currentFocusIndex, activeElement, present, emitted, listening,
               lastLogged, last>>

fieldConfig == <<kind, platform, required, failing>>
fieldVars == <<kind, platform, constructed, internals, required, failing, value, formValue,
               handleFlags, errorMessage, validationError, isVisible, checked, indeterminate,
               updatePending, inputRendered, nativeValue, nativeChecked>>

checkboxVars == <<disabled, valueAttribute, lastClickTime, lastToggleTime, now>>
themeVars == <<theme, themeChanged, hostConnected, everConnected, mediaQuery, registered,
               prefersDark, dataTheme>>
alertVars == <<variant, dismissible, inDocument, dismissTimers, started, resolved>>
widgetVars == <<checkboxVars, themeVars, alertVars>>

(* What the modal's own handlers leave alone. *)
restVars == <<apiVars, fieldVars, widgetVars>>

(* What the handlers of an input-like component leave alone. *)
modalState == <<open, changedOpen, closeOnBackdrop, closeOnEscape, preventClose, connected,
                dialogOpen, nativePreviouslyFocused, closeQueued,
                frames, timers, previouslyFocusedElement, focusableElements,
                currentFocusIndex, activeElement, present>>

vars == <<modalVars, apiVars, fieldVars, widgetVars>>

(***************************************************************************)
(* Events.                                                                 *)
(***************************************************************************)
OpenEvent == [type |-> "ui-modal-open", reason |-> "programmatic", returnValue |-> "undefined"]
BeforeCloseEvent(reason) ==
    [type |-> "ui-modal-before-close", reason |-> reason, returnValue |-> "undefined"]
CloseEvent(reason, returnValue) ==
    [type |-> "ui-modal-close", reason |-> reason, returnValue |-> returnValue]

OpenCloseTypes == {"ui-modal-open", "ui-modal-close"}

(* The last ui-modal-open or ui-modal-close among the events evs, or l     *)
(* when there is none.                                                     *)
RECURSIVE LogAfter(_, _)
LogAfter(l, evs) ==
    IF evs = <<>> THEN l
    ELSE LogAfter(IF Head(evs).type \in OpenCloseTypes THEN Head(evs).type ELSE l, Tail(evs))

(* emit(): evs are the events this handler dispatches, in order; the       *)
(* page's listener, when there is one, hears them.                         *)
Emit(evs) ==
    /\ emitted' = evs
    /\ listening' = listening
    /\ lastLogged' = IF listening THEN LogAfter(lastLogged, evs) ELSE lastLogged

Op(name) == [op |-> name, reason |-> "none", cancelled |-> FALSE,
             returnValue |-> "undefined", prevented |-> FALSE,
             arg |-> "none", result |-> "none"]

(***************************************************************************)
(* The native dialog.                                                      *)
(***************************************************************************)
(* dialog.close(): nothing on a dialog that is not shown; otherwise the    *)
(* surface is dismissed, focus goes back to the element remembered by      *)
(* showModal() and a 'close' event is queued.  (The dialog's returnValue,  *)
(* which the component never reads back, is not kept.)                     *)
DialogClose ==
    IF dialogOpen
    THEN /\ dialogOpen' = FALSE
         /\ closeQueued' = closeQueued + 1
         /\ activeElement' = IF nativePreviouslyFocused # Null
                             THEN nativePreviouslyFocused ELSE activeElement
         /\ nativePreviouslyFocused' = Null
    ELSE UNCHANGED <<dialogOpen, closeQueued, activeElement, nativePreviouslyFocused>>

(* dialog.showModal(): nothing on a dialog already shown modally; otherwise *)
(* the surface is shown, the focused element remembered and focus moved     *)
(* into the dialog (its first focusable area is the header's close button). *)
DialogShowModal ==
    IF dialogOpen
    THEN UNCHANGED <<dialogOpen, nativePreviouslyFocused, activeElement>>
    ELSE /\ dialogOpen' = TRUE
         /\ nativePreviouslyFocused' = activeElement
         /\ activeElement' = "host"

(***************************************************************************)
(* Focus bookkeeping.                                                      *)
(***************************************************************************)
(* The slotted content is laid out only while the dialog is shown          *)
(* (dialog:not([open]) { display: none }) and the element is connected.    *)
Rendered == connected /\ dialogOpen

QuerySelectorAll ==
    SelectSeq(SubSeq(ElementNames, 1, MaxContent), LAMBDA e : e \in present)

(* Variant: the filter keeps every element the selectors match. *)
IsFocusableNowUnfiltered(e) == TRUE

(* The filter of _updateFocusableElements: laid out, or the active element. *)
IsFocusableNow(e) == Rendered \/ e = activeElement

ComputeFocusable == SelectSeq(QuerySelectorAll, IsFocusableNow)

ClampIndex(i, n) == IF i >= n THEN 0 ELSE i

FocusNextIndex(i, n) == (i + 1) % n

(* Variant: the backward step stops at the first entry instead of wrapping. *)
FocusPreviousIndexNoWrap(i, n) == IF i = 0 THEN 0 ELSE i - 1

FocusPreviousIndex(i, n) == IF i = 0 THEN n - 1 ELSE i - 1

(* el.focus(): the modal container carries no tabindex, so focus() on it   *)
(* moves nothing; content that is not laid out cannot take focus either.   *)
FocusTarget(el, current) ==
    IF el = "container" THEN current
    ELSE IF el \in Content /\ ~(el \in present /\ Rendered) THEN current
    ELSE IF el = "host" /\ ~Rendered THEN current
    ELSE el

(* _focusFirstElement on the list l with cursor i, focus being at current. *)
FocusFirstIndex(l, i) == IF Len(l) > 0 THEN 0 ELSE i
FocusFirstTarget(l, current) ==
    IF Len(l) > 0 THEN FocusTarget(l[1], current) ELSE FocusTarget("container", current)

(* The caller holds no array. *)
NoArray == <<Null>>

(* getFocusableElements() has not been called yet. *)
NoCallYet ==
    /\ returnedArray = NoArray
    /\ returnedIsInternal = FALSE

(* An input-like element that has not been created yet. *)
NotConstructed ==
    /\ constructed = "no"
    /\ internals = "undefined"
    /\ value = ""
    /\ formValue = "unset"
    /\ handleFlags = {}
    /\ errorMessage = ""
    /\ validationError = FALSE
    /\ isVisible = FALSE
    /\ checked = FALSE
    /\ indeterminate = FALSE
    /\ updatePending = FALSE
    /\ inputRendered = FALSE
    /\ nativeValue = ""
    /\ nativeChecked = FALSE

(* An enabled checkbox without a value attribute, never clicked. *)
CheckboxDefaults ==
    /\ disabled = FALSE
    /\ valueAttribute = Null
    /\ lastClickTime = 0
    /\ lastToggleTime = 0
    /\ now = 1

(* A UiElement that has not been connected: light theme, no listener. *)
ThemeDefaults ==
    /\ theme = "light"
    /\ themeChanged = FALSE
    /\ hostConnected = FALSE
    /\ everConnected = FALSE
    /\ mediaQuery = 0
    /\ registered = {}
    /\ prefersDark = FALSE
    /\ dataTheme = Null

(* An Alert with its default properties and no timer. *)
AlertDefaults ==
    /\ variant = "info"
    /\ dismissible = FALSE
    /\ inDocument = TRUE
    /\ dismissTimers = <<>>
    /\ started = 0
    /\ resolved = {}

(* The page holds none of the other components. *)
NoWidgets == CheckboxDefaults /\ ThemeDefaults /\ AlertDefaults

(* The page holds no input-like component next to the modal. *)
NoField ==
    /\ kind = "input"
    /\ platform = "once"
    /\ required = FALSE
    /\ failing = {}
    /\ NotConstructed
    /\ NoWidgets

ModalInit ==
    /\ open = FALSE
    /\ changedOpen = FALSE
    /\ closeOnBackdrop \in BOOLEAN
    /\ closeOnEscape \in BOOLEAN
    /\ preventClose \in BOOLEAN
    /\ connected = TRUE
    /\ dialogOpen = FALSE
    /\ nativePreviouslyFocused = Null
    /\ closeQueued = 0
    /\ frames = <<>>
    /\ timers = 0
    /\ previouslyFocusedElement = Null
    /\ focusableElements = <<>>
    /\ currentFocusIndex = 0
    /\ activeElement = "trigger"
    /\ present \in {{}, Content}
    /\ emitted = <<>>
    /\ listening = FALSE
    /\ lastLogged = "none"
    /\ last = Op("init")
    /\ NoCallYet
    /\ NoField


(***************************************************************************)
(* The reactive property and its update.                                   *)
(***************************************************************************)
(* this.open = v: the reactive setter records the property as changed only *)
(* when the value differs, and the update runs later, as a microtask.      *)
AssignOpen(v) ==
    /\ open' = v
    /\ changedOpen' = (changedOpen \/ open # v)

(* _handleOpen *)
HandleOpen ==
    /\ Len(frames) < MaxFrames
    /\ previouslyFocusedElement' = activeElement
    /\ DialogShowModal
    /\ frames' = Append(frames, "open")
    /\ Emit(<<OpenEvent>>)
    /\ UNCHANGED <<closeQueued, timers, focusVars>>

(* Variant: _handleClose also leaves a focus-restoring timer. *)
HandleCloseRestoringFocus ==
    /\ dialogOpen => closeQueued < MaxQueued
    /\ DialogClose
    /\ Emit(<<>>)
    /\ timers' = timers + 1
    /\ UNCHANGED <<previouslyFocusedElement, frames, focusVars>>

(* _handleClose *)
HandleClose ==
    /\ dialogOpen => closeQueued < MaxQueued
    /\ DialogClose
    /\ Emit(<<>>)
    /\ UNCHANGED <<previouslyFocusedElement, taskVars, focusVars>>

(* open = v written by the host; showModal() is open = true. *)
SetOpen(v) ==
    /\ connected
    /\ v # open
    /\ AssignOpen(v)
    /\ Emit(<<>>)
    /\ last' = Op(IF v THEN "showModal" ELSE "setOpenFalse")
    /\ UNCHANGED <<config, connected, dialogVars, taskVars, previouslyFocusedElement,
                   focusVars, activeElement, present>>
    /\ UNCHANGED restVars

(* updated(changedProperties) with 'open' among the changed properties. *)
Updated ==
    /\ changedOpen
    /\ changedOpen' = FALSE
    /\ IF open THEN HandleOpen ELSE HandleClose
    /\ last' = Op("updated")
    /\ UNCHANGED <<open, config, connected, present>>
    /\ UNCHANGED restVars

(***************************************************************************)
(* The cancellable close protocol.                                         *)
(***************************************************************************)
(* _requestClose when a listener called detail.preventDefault(). *)
RequestCloseVeto(reason) ==
    /\ Emit(<<BeforeCloseEvent(reason)>>)
    /\ UNCHANGED <<open, changedOpen>>

(* Variant: the close event carries no return value. *)
RequestCloseCommitDroppingValue(reason, returnValue) ==
    /\ AssignOpen(FALSE)
    /\ Emit(<<BeforeCloseEvent(reason), CloseEvent(reason, "undefined")>>)

(* _requestClose when no listener cancelled: the property part. *)
RequestCloseCommit(reason, returnValue) ==
    /\ AssignOpen(FALSE)
    /\ Emit(<<BeforeCloseEvent(reason), CloseEvent(reason, returnValue)>>)

(* Variant: the close is committed whatever the listener answered. *)
RequestCloseIgnoringVeto(reason, returnValue, cancelled) ==
    /\ AssignOpen(FALSE)
    /\ Emit(<<BeforeCloseEvent(reason), CloseEvent(reason, returnValue)>>)
    /\ DialogClose

(* _requestClose *)
RequestClose(reason, returnValue, cancelled) ==
    IF cancelled
    THEN /\ RequestCloseVeto(reason)
         /\ UNCHANGED <<dialogVars, activeElement>>
    ELSE /\ RequestCloseCommit(reason, returnValue)
         /\ DialogClose

NoRequest ==
    /\ Emit(<<>>)
    /\ UNCHANGED <<open, changedOpen, dialogVars, activeElement>>

(* Variant: the backdrop test reads closeOnBackdrop only. *)
BackdropClosesOnFlagAlone == closeOnBackdrop

(* The test of _handleDialogClick for a click whose target is the dialog. *)
BackdropCloses == closeOnBackdrop /\ ~preventClose

(* Variant: the cancel test reads preventClose only. *)
EscapeBlockedByPreventCloseOnly == preventClose

(* The test of _handleDialogCancel. *)
EscapeBlocked == ~closeOnEscape \/ preventClose

(* Variant: the close button ignores preventClose. *)
ButtonClosesAlways == TRUE

(* The test of _handleCloseButtonClick. *)
ButtonCloses == ~preventClose

(* A click on the backdrop: the event's target is the dialog itself. *)
BackdropClick(cancelled) ==
    /\ connected /\ dialogOpen
    /\ closeQueued < MaxQueued
    /\ IF BackdropCloses
       THEN /\ RequestClose("backdrop", "undefined", cancelled)
            /\ last' = [Op("backdropClick") EXCEPT !.reason = "backdrop",
                                                   !.cancelled = cancelled]
       ELSE /\ cancelled = FALSE
            /\ NoRequest
            /\ last' = Op("backdropClick")
    /\ UNCHANGED <<config, connected, taskVars, previouslyFocusedElement, focusVars, present>>
    /\ UNCHANGED restVars

(* A click inside the modal container: _stopPropagation keeps it from the *)
(* dialog's click handler, and its target is not the dialog anyway.       *)
ContainerClick ==
    /\ connected /\ dialogOpen
    /\ NoRequest
    /\ last' = Op("containerClick")
    /\ UNCHANGED <<config, connected, taskVars, previouslyFocusedElement, focusVars, present>>
    /\ UNCHANGED restVars

(* A click on the header's close button. *)
CloseButtonClick(cancelled) ==
    /\ connected /\ dialogOpen
    /\ closeQueued < MaxQueued
    /\ IF ButtonCloses
       THEN /\ RequestClose("button", "undefined", cancelled)
            /\ last' = [Op("closeButtonClick") EXCEPT !.reason = "button",
                                                      !.cancelled = cancelled]
       ELSE /\ cancelled = FALSE
            /\ NoRequest
            /\ last' = Op("closeButtonClick")
    /\ UNCHANGED <<config, connected, taskVars, previouslyFocusedElement, focusVars, present>>
    /\ UNCHANGED restVars

(* Escape on the shown dialog: the platform fires 'cancel' at it and, when *)
(* no handler called preventDefault() on that event, closes the dialog.    *)
(* _handleDialogCancel calls preventDefault() only on its blocked branch.  *)
Escape(cancelled) ==
    /\ connected /\ dialogOpen
    /\ closeQueued < MaxQueued
    /\ IF EscapeBlocked
       THEN /\ cancelled = FALSE
            /\ NoRequest
            /\ last' = [Op("escape") EXCEPT !.prevented = TRUE]
       ELSE /\ IF cancelled
               THEN /\ RequestCloseVeto("escape")
                    /\ DialogClose
               ELSE RequestClose("escape", "undefined", FALSE)
            /\ last' = [Op("escape") EXCEPT !.reason = "escape", !.cancelled = cancelled]
    /\ UNCHANGED <<config, connected, taskVars, previouslyFocusedElement, focusVars, present>>
    /\ UNCHANGED restVars

(* close(returnValue) *)
Close(returnValue, cancelled) ==
    /\ connected
    /\ dialogOpen => closeQueued < MaxQueued
    /\ RequestClose("programmatic", returnValue, cancelled)
    /\ last' = [Op("close") EXCEPT !.reason = "programmatic", !.cancelled = cancelled,
                                   !.returnValue = returnValue]
    /\ UNCHANGED <<config, connected, taskVars, previouslyFocusedElement, focusVars, present>>
    /\ UNCHANGED restVars

(* The queued native 'close' event reaches _handleDialogClose. *)
HandleDialogClose ==
    /\ closeQueued > 0
    /\ closeQueued' = closeQueued - 1
    /\ AssignOpen(FALSE)
    /\ Emit(<<CloseEvent("programmatic", "undefined")>>)
    /\ last' = Op("nativeClose")
    /\ UNCHANGED <<config, connected, dialogOpen, nativePreviouslyFocused,
                   taskVars, previouslyFocusedElement, focusVars, activeElement, present>>
    /\ UNCHANGED restVars


(***************************************************************************)
(* Focus: frame callbacks, the tab cycle, slotted content.                 *)
(***************************************************************************)
(* The callback _handleOpen left for the next frame:                       *)
(* _updateFocusableElements, then _focusFirstElement.                      *)
OpenFrame ==
    LET l == ComputeFocusable
        i == ClampIndex(currentFocusIndex, Len(l))
    IN  /\ focusableElements' = l
        /\ currentFocusIndex' = FocusFirstIndex(l, i)
        /\ activeElement' = FocusFirstTarget(l, activeElement)

(* The callback _handleSlotChange left for the next frame. *)
SlotFrame ==
    LET l == ComputeFocusable
    IN  /\ focusableElements' = l
        /\ currentFocusIndex' = ClampIndex(currentFocusIndex, Len(l))
        /\ UNCHANGED activeElement

(* The browser runs the oldest pending animation-frame callback. *)
Frame ==
    /\ frames # <<>>
    /\ frames' = Tail(frames)
    /\ IF Head(frames) = "open" THEN OpenFrame ELSE SlotFrame
    /\ Emit(<<>>)
    /\ last' = Op(IF Head(frames) = "open" THEN "openFrame" ELSE "slotFrame")
    /\ UNCHANGED <<open, changedOpen, config, connected, dialogVars, timers,
                   previouslyFocusedElement, present>>
    /\ UNCHANGED restVars

(* _handleKeydown for a Tab key, with or without Shift. *)
HandleKeydown(shiftKey) ==
    IF ~open
    THEN /\ last' = Op(IF shiftKey THEN "shiftTab" ELSE "tab")
         /\ UNCHANGED <<focusVars, activeElement>>
    ELSE LET l == ComputeFocusable
             n == Len(l)
             i == ClampIndex(currentFocusIndex, n)
             j == IF shiftKey THEN FocusPreviousIndex(i, n) ELSE FocusNextIndex(i, n)
         IN  /\ last' = [Op(IF shiftKey THEN "shiftTab" ELSE "tab") EXCEPT !.prevented = TRUE]
             /\ focusableElements' = l
             /\ IF n = 0
                THEN /\ currentFocusIndex' = i
                     /\ UNCHANGED activeElement
                ELSE /\ currentFocusIndex' = j
                     /\ activeElement' = FocusTarget(l[j + 1], activeElement)

(* A Tab keydown reaches the listener the host element carries while connected. *)
Keydown(shiftKey) ==
    /\ connected
    /\ HandleKeydown(shiftKey)
    /\ Emit(<<>>)
    /\ UNCHANGED <<open, changedOpen, config, connected, dialogVars, taskVars,
                   previouslyFocusedElement, present>>
    /\ UNCHANGED restVars

(* _handleSlotChange *)
HandleSlotChange ==
    IF open
    THEN /\ Len(frames) < MaxFrames
         /\ frames' = Append(frames, "slot")
    ELSE UNCHANGED frames

(* The host slots a focusable element into the modal. *)
AddContent(e) ==
    /\ connected
    /\ e \notin present
    /\ present' = present \cup {e}
    /\ HandleSlotChange
    /\ Emit(<<>>)
    /\ last' = Op("addContent")
    /\ UNCHANGED <<open, changedOpen, config, connected, dialogVars, timers,
                   previouslyFocusedElement, focusVars, activeElement>>
    /\ UNCHANGED restVars

(* The host removes a slotted element; focus held by it falls to the body. *)
RemoveContent(e) ==
    /\ connected
    /\ e \in present
    /\ present' = present \ {e}
    /\ activeElement' = IF activeElement = e THEN "body" ELSE activeElement
    /\ HandleSlotChange
    /\ Emit(<<>>)
    /\ last' = Op("removeContent")
    /\ UNCHANGED <<open, changedOpen, config, connected, dialogVars, timers,
                   previouslyFocusedElement, focusVars>>
    /\ UNCHANGED restVars

(***************************************************************************)
(* Removal from the document.                                              *)
(***************************************************************************)
(* _restoreFocus: a timer is left when a previously focused element is held. *)
RestoreFocus ==
    timers' = IF previouslyFocusedElement # Null THEN timers + 1 ELSE timers

(* disconnectedCallback, once no reactive update is pending; focus held    *)
(* inside the removed element falls to the body.  The element is not put   *)
(* back into the document afterwards.                                      *)
Disconnected ==
    /\ connected
    /\ ~changedOpen
    /\ connected' = FALSE
    /\ RestoreFocus
    /\ activeElement' = IF activeElement \in Inside THEN "body" ELSE activeElement
    /\ Emit(<<>>)
    /\ last' = Op("disconnected")
    /\ UNCHANGED <<open, changedOpen, config, dialogVars, frames,
                   previouslyFocusedElement, focusVars, present>>
    /\ UNCHANGED restVars

(* The timer callback of _restoreFocus: this._previouslyFocusedElement?.focus() *)
RestoreFocusTimer ==
    /\ timers > 0
    /\ timers' = timers - 1
    /\ activeElement' = IF previouslyFocusedElement # Null
                        THEN FocusTarget(previouslyFocusedElement, activeElement)
                        ELSE activeElement
    /\ Emit(<<>>)
    /\ last' = Op("restoreFocusTimer")
    /\ UNCHANGED <<open, changedOpen, config, connected, dialogVars, frames,
                   previouslyFocusedElement, focusVars, present>>
    /\ UNCHANGED restVars

ModalNext ==
    \/ \E v \in BOOLEAN : SetOpen(v)
    \/ Updated
    \/ \E c \in BOOLEAN : BackdropClick(c)
    \/ ContainerClick
    \/ \E c \in BOOLEAN : CloseButtonClick(c)
    \/ \E c \in BOOLEAN : Escape(c)
    \/ \E rv \in ReturnValues, c \in BOOLEAN : Close(rv, c)
    \/ HandleDialogClose
    \/ Frame
    \/ \E s \in BOOLEAN : Keydown(s)
    \/ Disconnected
    \/ RestoreFocusTimer

(* The modal under every configuration, its slotted content fixed. *)
ModalSpec == ModalInit /\ [][ModalNext]_vars

(* The same modal on a page that listens to its open and close events. *)
TraceInit ==
    /\ open = FALSE
    /\ changedOpen = FALSE
    /\ closeOnBackdrop \in BOOLEAN
    /\ closeOnEscape \in BOOLEAN
    /\ preventClose \in BOOLEAN
    /\ connected = TRUE
    /\ dialogOpen = FALSE
    /\ nativePreviouslyFocused = Null
    /\ closeQueued = 0
    /\ frames = <<>>
    /\ timers = 0
    /\ previouslyFocusedElement = Null
    /\ focusableElements = <<>>
    /\ currentFocusIndex = 0
    /\ activeElement = "trigger"
    /\ present \in {{}, Content}
    /\ emitted = <<>>
    /\ listening = TRUE
    /\ lastLogged = "none"
    /\ last = Op("init")
    /\ NoCallYet
    /\ NoField

TraceSpec == TraceInit /\ [][ModalNext]_vars

(* The modal as constructed (closeOnBackdrop and closeOnEscape set,       *)
(* preventClose clear), the host adding and removing slotted content.     *)
FocusInit ==
    /\ open = FALSE
    /\ changedOpen = FALSE
    /\ closeOnBackdrop = TRUE
    /\ closeOnEscape = TRUE
    /\ preventClose = FALSE
    /\ connected = TRUE
    /\ dialogOpen = FALSE
    /\ nativePreviouslyFocused = Null
    /\ closeQueued = 0
    /\ frames = <<>>
    /\ timers = 0
    /\ previouslyFocusedElement = Null
    /\ focusableElements = <<>>
    /\ currentFocusIndex = 0
    /\ activeElement = "trigger"
    /\ present \in SUBSET Content
    /\ emitted = <<>>
    /\ listening = FALSE
    /\ lastLogged = "none"
    /\ last = Op("init")
    /\ NoCallYet
    /\ NoField

FocusNext ==
    \/ ModalNext
    \/ \E e \in Content : AddContent(e)
    \/ \E e \in Content : RemoveContent(e)

FocusSpec == FocusInit /\ [][FocusNext]_vars

(***************************************************************************)
(* The modal's public helper methods and their caller.                     *)
(***************************************************************************)
(* Variant: the method hands out the internal array itself. *)
ReturnLiveReference(l) ==
    /\ returnedArray' = l
    /\ returnedIsInternal' = TRUE

(* return [...this._focusableElements] *)
ReturnCopy(l) ==
    /\ returnedArray' = l
    /\ returnedIsInternal' = FALSE

(* getFocusableElements(): _updateFocusableElements, then the copy. *)
GetFocusableElements ==
    LET l == ComputeFocusable
    IN  /\ focusableElements' = l
        /\ currentFocusIndex' = ClampIndex(currentFocusIndex, Len(l))
        /\ ReturnCopy(l)
        /\ Emit(<<>>)
        /\ last' = [Op("getFocusableElements") EXCEPT !.result = "array"]
        /\ UNCHANGED <<open, changedOpen, config, connected, dialogVars, taskVars,
                       previouslyFocusedElement, activeElement, present>>
        /\ UNCHANGED <<fieldVars, widgetVars>>

(* What a caller can do to an array it holds: drop its last entry, or      *)
(* append an element of its own.                                           *)
Mutations == {"pop", "push"}

Mutate(m, a) == IF m = "pop" THEN SubSeq(a, 1, Len(a) - 1) ELSE Append(a, "trigger")

(* The caller changes the array it got from getFocusableElements(); the    *)
(* modal's list changes with it only if both are one object.               *)
CallerMutatesArray(m) ==
    /\ returnedArray # NoArray
    /\ m = "pop" => Len(returnedArray) > 0
    /\ m = "push" => Len(returnedArray) <= MaxContent
    /\ returnedArray' = Mutate(m, returnedArray)
    /\ focusableElements' = IF returnedIsInternal THEN returnedArray' ELSE focusableElements
    /\ Emit(<<>>)
    /\ last' = [Op("callerMutates") EXCEPT !.arg = m]
    /\ UNCHANGED <<open, changedOpen, config, connected, dialogVars, taskVars,
                   previouslyFocusedElement, currentFocusIndex, activeElement, present,
                   returnedIsInternal>>
    /\ UNCHANGED <<fieldVars, widgetVars>>

(* What this.querySelector(formSelector) finds among the modal's children: *)
(* nothing, an element that is no form (it has neither requestSubmit nor   *)
(* submit nor checkValidity), a form, or a form of a browser without       *)
(* requestSubmit.                                                          *)
Found == {"null", "notAForm", "form", "legacyForm"}
IsForm(f) == f \in {"form", "legacyForm"}

SubmitFormResult(f) ==
    IF f = "form" THEN "true"
    ELSE IF f = "legacyForm" THEN "true"
    ELSE "false"

ValidateFormResult(f, valid) ==
    IF IsForm(f) THEN (IF valid THEN "true" ELSE "false") ELSE "false"

(* new FormData(form) throws a TypeError when handed an element that is no form. *)
GetFormDataResult(f) ==
    IF f = "null" THEN "null"
    ELSE IF IsForm(f) THEN "formData"
    ELSE "throws"

(* A helper call: nothing of the modal is written. *)
HelperCall(name, f, r) ==
    /\ Emit(<<>>)
    /\ last' = [Op(name) EXCEPT !.arg = f, !.result = r]
    /\ UNCHANGED <<open, changedOpen, config, connected, dialogVars, taskVars,
                   previouslyFocusedElement, focusVars, activeElement, present,
                   returnedArray, returnedIsInternal>>
    /\ UNCHANGED <<fieldVars, widgetVars>>

SubmitForm(f) == HelperCall("submitForm", f, SubmitFormResult(f))

ValidateForm(f, valid) ==
    /\ ~IsForm(f) => valid = FALSE
    /\ HelperCall("validateForm", f, ValidateFormResult(f, valid))

GetFormData(f) == HelperCall("getFormData", f, GetFormDataResult(f))

(* The host opens and closes the modal through its open property, presses *)
(* Tab, asks for the focusable elements and changes the array it was      *)
(* given; the slotted content is any subset of the candidates.            *)
ApiNext ==
    \/ \E v \in BOOLEAN : SetOpen(v)
    \/ Updated
    \/ HandleDialogClose
    \/ Frame
    \/ \E sh \in BOOLEAN : Keydown(sh)
    \/ GetFocusableElements
    \/ \E m \in Mutations : CallerMutatesArray(m)

ApiSpec == FocusInit /\ [][ApiNext]_vars

(* The host opens and closes the modal, under every configuration, and    *)
(* calls the form helpers with selectors of every kind.                   *)
HelperNext ==
    \/ \E v \in BOOLEAN : SetOpen(v)
    \/ Updated
    \/ HandleDialogClose
    \/ Frame
    \/ \E rv \in ReturnValues, c \in BOOLEAN : Close(rv, c)
    \/ \E f \in Found : SubmitForm(f)
    \/ \E f \in Found, valid \in BOOLEAN : ValidateForm(f, valid)
    \/ \E f \in Found : GetFormData(f)

HelperSpec == ModalInit /\ [][HelperNext]_vars


(***************************************************************************)
(* Part 2: the form-associated components.  UiElement                      *)
(* (foundations/base-element.ts), FormAssociatedElement                    *)
(* (foundations/form-associated-element.ts) and the three classes built on *)
(* them: Input, PasswordInput and Checkbox.                                *)
(***************************************************************************)
Kinds == {"input", "password", "checkbox"}

(* How attachInternals() behaves where the element is created: the method  *)
(* does not exist; it exists and refuses (the capability is disabled for   *)
(* the element); it hands out one handle per element and throws at a       *)
(* second call, as the HTML standard prescribes; or it hands out a handle  *)
(* at every call, as a lenient stand-in for the platform does.             *)
Platforms == {"absent", "refuses", "once", "repeatable"}

(* this.attachInternals(), attached telling whether the element already has a handle. *)
AttachInternals(attached) ==
    CASE platform = "absent" -> "notAFunction"
      [] platform = "refuses" -> "throws"
      [] platform = "once" -> IF attached THEN "throws" ELSE "handle"
      [] platform = "repeatable" -> "handle"

(* The constructor of UiElement: attaches when the method exists, outside  *)
(* any try block.                                                          *)
UiElementConstructor ==
    IF platform = "absent"
    THEN [threw |-> FALSE, internals |-> "undefined", attached |-> FALSE]
    ELSE IF AttachInternals(FALSE) = "handle"
         THEN [threw |-> FALSE, internals |-> "handle", attached |-> TRUE]
         ELSE [threw |-> TRUE, internals |-> "undefined", attached |-> FALSE]

(* The constructor of FormAssociatedElement, after super() returned u:     *)
(* attaches inside try, and stores null when the call throws.              *)
FormAssociatedConstructor(u) ==
    IF u.threw THEN u
    ELSE IF AttachInternals(u.attached) = "handle"
         THEN [u EXCEPT !.internals = "handle", !.attached = TRUE]
         ELSE [u EXCEPT !.internals = Null]

(* get hasFormIntegration *)
HasFormIntegration == internals # Null

(* The texts a user can type or a caller can assign: nothing, a text that  *)
(* meets every constraint, a text that fails the constraints in failing.   *)
TextValues == {"", "ok", "bad"}
(* A checkbox's value: the default 'on', or nothing. *)
CheckboxValues == {"", "on"}
ValuesOf(k) == IF k = "checkbox" THEN CheckboxValues ELSE TextValues

ChangeEvent(v) == [type |-> "ui-input-change", value |-> v, originalEvent |-> FALSE]
ChangeEventWithOriginal(v) == [type |-> "ui-input-change", value |-> v, originalEvent |-> TRUE]
FieldEvent(t) == [type |-> t, value |-> value, originalEvent |-> TRUE]

(* this.internals?.setFormValue(v) *)
SetFormValue(v) == formValue' = IF internals # Null THEN v ELSE formValue

(* Variant: the value setter announces the change as a user edit would. *)
ValueSetterEventsAnnouncing(v) == <<ChangeEvent(v)>>

(* The events dispatched by the value setter: none. *)
ValueSetterEvents(v) == <<>>

(* set value(val): store, push to the handle, request an update. *)
ValueSetter(v) ==
    /\ value' = v
    /\ SetFormValue(v)
    /\ updatePending' = TRUE

(* handleValueChange(newValue): store, push to the handle, request an     *)
(* update; its event is dispatched by the handler that called it.         *)
HandleValueChange(v) ==
    /\ value' = v
    /\ SetFormValue(v)
    /\ updatePending' = TRUE

(* The event handleValueChange dispatches. *)
HandleValueChangeEvents(v) == <<ChangeEvent(v)>>

(* The element is created: the constructors run from the base class down, *)
(* and the first render is requested.                                     *)
Construct ==
    /\ constructed = "no"
    /\ LET c == FormAssociatedConstructor(UiElementConstructor)
       IN  /\ constructed' = IF c.threw THEN "threw" ELSE "yes"
           /\ internals' = c.internals
           /\ updatePending' = ~c.threw
    /\ Emit(<<>>)
    /\ last' = Op("construct")
    /\ UNCHANGED <<fieldConfig, value, formValue, handleFlags, errorMessage, validationError,
                   isVisible, checked, indeterminate, inputRendered, nativeValue, nativeChecked>>
    /\ UNCHANGED <<modalState, apiVars, widgetVars>>

(* el.value = v, written by the page's script. *)
SetValue(v) ==
    /\ constructed = "yes"
    /\ ValueSetter(v)
    /\ Emit(ValueSetterEvents(v))
    /\ last' = [Op("setValue") EXCEPT !.arg = v]
    /\ UNCHANGED <<fieldConfig, constructed, internals, handleFlags, errorMessage,
                   validationError, isVisible, checked, indeterminate, inputRendered,
                   nativeValue, nativeChecked>>
    /\ UNCHANGED <<modalState, apiVars, widgetVars>>

(***************************************************************************)
(* Native constraint validation and the validation pass.                   *)
(***************************************************************************)
MaxFailing == 2     \* constraints, besides required, that one text can fail at once
MaxNow == 6         \* the clock's last reading, in units of 100 ms
MaxQueries == 2     \* MediaQueryList objects that can be alive at once
MaxCalls == 2       \* autoDismiss() calls made on one alert
MaxDelay == 2       \* the longest duration given to autoDismiss(), in clock units

(* The constraints a text can fail together, by the attributes each class  *)
(* renders on its native input: Input renders type, maxlength and pattern  *)
(* (text-like types) or min, max and step (type number); PasswordInput     *)
(* renders minlength, maxlength and pattern; the checkbox has none.        *)
FailingSets(k) ==
    LET all == CASE k = "input" -> SUBSET {"typeMismatch", "tooLong", "patternMismatch"}
                                   \cup SUBSET {"rangeOverflow", "rangeUnderflow", "stepMismatch"}
                 [] k = "password" -> SUBSET {"tooShort", "tooLong", "patternMismatch"}
                 [] k = "checkbox" -> {{}}
    IN  { F \in all : Cardinality(F) <= MaxFailing }

(* Variant: the native input never reports a missing value. *)
NativeValidityWithoutRequired ==
    IF kind = "checkbox" THEN {}
    ELSE IF nativeValue = "bad" THEN failing
    ELSE {}

(* input.validity of the native input, as the set of its flags that are    *)
(* set: an empty text fails required only, and an unchecked box likewise.  *)
NativeValidity ==
    IF kind = "checkbox"
    THEN (IF required /\ ~nativeChecked THEN {"valueMissing"} ELSE {})
    ELSE IF nativeValue = "" THEN (IF required THEN {"valueMissing"} ELSE {})
    ELSE IF nativeValue = "bad" THEN failing
    ELSE {}

(* The order in which each _validateInput tests the native flags. *)
InputOrder == <<"valueMissing", "typeMismatch", "patternMismatch",
                "rangeOverflow", "rangeUnderflow", "tooLong">>
PasswordOrder == <<"valueMissing", "tooShort", "tooLong", "patternMismatch">>
CheckboxOrder == <<"valueMissing">>

TestOrder(k) ==
    CASE k = "input" -> InputOrder
      [] k = "password" -> PasswordOrder
      [] k = "checkbox" -> CheckboxOrder

(* The flag the if-else chain reports for the native flags F (not empty):  *)
(* the first one tested that is set, or customError in the last branch.    *)
ReportedFlag(k, F) ==
    LET order == TestOrder(k)
        hits == { i \in 1..Len(order) : order[i] \in F }
    IN  IF hits = {} THEN "customError"
        ELSE order[CHOOSE i \in hits : \A j \in hits : i <= j]

(* The message each branch assigns (the parameterised ones with their      *)
(* parameter left as its name).                                            *)
Message(k, flag) ==
    CASE k = "input" ->
           (CASE flag = "valueMissing" -> "This field is required"
              [] flag = "typeMismatch" -> "Please enter a valid value"
              [] flag = "patternMismatch" -> "Please match the requested format"
              [] flag = "rangeOverflow" -> "Value must be less than or equal to max"
              [] flag = "rangeUnderflow" -> "Value must be greater than or equal to min"
              [] flag = "tooLong" -> "Value must be no more than maxlength characters"
              [] OTHER -> "Please enter a valid value")
      [] k = "password" ->
           (CASE flag = "valueMissing" -> "Password is required"
              [] flag = "tooShort" -> "Password must be at least minlength characters"
              [] flag = "tooLong" -> "Password must be no more than maxlength characters"
              [] flag = "patternMismatch" -> "Password does not meet requirements"
              [] OTHER -> "Please enter a valid password")
      [] k = "checkbox" ->
           (CASE flag = "valueMissing" -> "This checkbox is required"
              [] OTHER -> "Please check this checkbox")

(* The messages a caller assigns to errorMessage. *)
CallerMessages == {"Manual error"}

(* Variant: the flags pushed are added to those the handle already has. *)
SetValidityMerging(flags) ==
    handleFlags' = IF internals # Null THEN handleFlags \cup flags ELSE handleFlags

(* setValidity(flags, message): forwarded to the handle when there is one. *)
SetValidity(flags) == handleFlags' = IF internals # Null THEN flags ELSE handleFlags

(* A write to the reactive property errorMessage requests an update when   *)
(* the value differs.                                                      *)
RequestUpdateForMessage == updatePending' = (updatePending \/ errorMessage' # errorMessage)

(* _validateInput, the same in the three classes but for order and texts.  *)
ValidateInput ==
    IF ~inputRendered
    THEN UNCHANGED <<errorMessage, validationError, handleFlags>>
    ELSE LET F == NativeValidity
         IN  IF F # {}
             THEN /\ validationError' = TRUE
                  /\ errorMessage' = Message(kind, ReportedFlag(kind, F))
                  /\ SetValidity({ReportedFlag(kind, F)})
             ELSE /\ validationError' = FALSE
                  /\ errorMessage' = IF validationError THEN "" ELSE errorMessage
                  /\ SetValidity({})

(***************************************************************************)
(* The handlers of the input-like components.                              *)
(***************************************************************************)
(* The reactive update: the template is rendered, which creates the native *)
(* input at the first render and writes the value (the checkedness) into   *)
(* it; the checkbox's firstUpdated then gives an empty value its default.  *)
Update ==
    /\ constructed = "yes"
    /\ updatePending
    /\ inputRendered' = TRUE
    /\ nativeValue' = IF kind = "checkbox" THEN nativeValue ELSE value
    /\ nativeChecked' = IF kind = "checkbox" THEN checked ELSE nativeChecked
    /\ IF kind = "checkbox" /\ ~inputRendered /\ value = ""
       THEN ValueSetter("on")
       ELSE /\ updatePending' = FALSE
            /\ UNCHANGED <<value, formValue>>
    /\ Emit(<<>>)
    /\ last' = Op("update")
    /\ UNCHANGED <<fieldConfig, constructed, internals, handleFlags, errorMessage,
                   validationError, isVisible, checked, indeterminate>>
    /\ UNCHANGED <<modalState, apiVars, widgetVars>>

(* The user edits the text of an Input or a PasswordInput: the native      *)
(* input event reaches _handleInput.  PasswordInput emits a second         *)
(* ui-input-change of its own after handleValueChange.                     *)
UserInput(v) ==
    /\ kind # "checkbox"
    /\ inputRendered
    /\ v # nativeValue
    /\ nativeValue' = v
    /\ HandleValueChange(v)
    /\ Emit(HandleValueChangeEvents(v)
            \o (IF kind = "password" THEN <<ChangeEventWithOriginal(v)>> ELSE <<>>))
    /\ last' = [Op("userInput") EXCEPT !.arg = v]
    /\ UNCHANGED <<fieldConfig, constructed, internals, handleFlags, errorMessage,
                   validationError, isVisible, checked, indeterminate, inputRendered,
                   nativeChecked>>
    /\ UNCHANGED <<modalState, apiVars, widgetVars>>

(* el.errorMessage = m, written by the page's script. *)
SetErrorMessage(m) ==
    /\ constructed = "yes"
    /\ errorMessage' = m
    /\ RequestUpdateForMessage
    /\ Emit(<<>>)
    /\ last' = [Op("setErrorMessage") EXCEPT !.arg = m]
    /\ UNCHANGED <<fieldConfig, constructed, internals, value, formValue, handleFlags,
                   validationError, isVisible, checked, indeterminate, inputRendered,
                   nativeValue, nativeChecked>>
    /\ UNCHANGED <<modalState, apiVars, widgetVars>>

(* The test of _handleFocus. *)
ClearOnFocus == validationError

(* The native input gains focus: _handleFocus. *)
Focus ==
    /\ inputRendered
    /\ IF ClearOnFocus
       THEN /\ errorMessage' = ""
            /\ validationError' = FALSE
       ELSE UNCHANGED <<errorMessage, validationError>>
    /\ RequestUpdateForMessage
    /\ Emit(<<FieldEvent("ui-input-focus")>>)
    /\ last' = Op("focus")
    /\ UNCHANGED <<fieldConfig, constructed, internals, value, formValue, handleFlags,
                   isVisible, checked, indeterminate, inputRendered, nativeValue, nativeChecked>>
    /\ UNCHANGED <<modalState, apiVars, widgetVars>>

(* The native input loses focus: _handleBlur. *)
Blur ==
    /\ inputRendered
    /\ ValidateInput
    /\ RequestUpdateForMessage
    /\ Emit(<<FieldEvent("ui-input-blur")>>)
    /\ last' = Op("blur")
    /\ UNCHANGED <<fieldConfig, constructed, internals, value, formValue,
                   isVisible, checked, indeterminate, inputRendered, nativeValue, nativeChecked>>
    /\ UNCHANGED <<modalState, apiVars, widgetVars>>

(* checkValidity(): true before the first render, otherwise the validation *)
(* pass and then the native input's validity.                              *)
CheckValidity ==
    /\ constructed = "yes"
    /\ ValidateInput
    /\ RequestUpdateForMessage
    /\ Emit(<<>>)
    /\ last' = [Op("checkValidity") EXCEPT
                   !.result = IF ~inputRendered \/ NativeValidity = {} THEN "true" ELSE "false"]
    /\ UNCHANGED <<fieldConfig, constructed, internals, value, formValue,
                   isVisible, checked, indeterminate, inputRendered, nativeValue, nativeChecked>>
    /\ UNCHANGED <<modalState, apiVars, widgetVars>>

(* The part of Input.formResetCallback after super.formResetCallback(). *)
InputReset ==
    /\ errorMessage' = ""
    /\ validationError' = FALSE
    /\ UNCHANGED <<isVisible, checked, indeterminate>>

(* Variant: the reset leaves the password visible if it was. *)
PasswordResetKeepingVisibility ==
    /\ errorMessage' = ""
    /\ validationError' = FALSE
    /\ UNCHANGED <<isVisible, checked, indeterminate>>

(* The part of PasswordInput.formResetCallback after super.formResetCallback(). *)
PasswordReset ==
    /\ isVisible' = FALSE
    /\ errorMessage' = ""
    /\ validationError' = FALSE
    /\ UNCHANGED <<checked, indeterminate>>

(* The part of Checkbox.formResetCallback after super.formResetCallback(). *)
CheckboxReset ==
    /\ checked' = FALSE
    /\ indeterminate' = FALSE
    /\ errorMessage' = ""
    /\ validationError' = FALSE
    /\ UNCHANGED isVisible

(* formResetCallback(), called by the form on reset or by a script:        *)
(* FormAssociatedElement's sets value to '', each class adds its own.      *)
FormResetCallback ==
    /\ constructed = "yes"
    /\ ValueSetter("")
    /\ CASE kind = "input" -> InputReset
         [] kind = "password" -> PasswordReset
         [] kind = "checkbox" -> CheckboxReset
    /\ Emit(<<>>)
    /\ last' = Op("formReset")
    /\ UNCHANGED <<fieldConfig, constructed, internals, handleFlags, inputRendered,
                   nativeValue, nativeChecked>>
    /\ UNCHANGED <<modalState, apiVars, widgetVars>>

(* toggleVisibility() or a click on the toggle button of a PasswordInput. *)
ToggleVisibility ==
    /\ kind = "password"
    /\ constructed = "yes"
    /\ isVisible' = ~isVisible
    /\ updatePending' = TRUE
    /\ Emit(<<[type |-> "ui-password-toggle", value |-> value, isVisible |-> ~isVisible]>>)
    /\ last' = Op("toggleVisibility")
    /\ UNCHANGED <<fieldConfig, constructed, internals, value, formValue, handleFlags,
                   errorMessage, validationError, checked, indeterminate, inputRendered,
                   nativeValue, nativeChecked>>
    /\ UNCHANGED <<modalState, apiVars, widgetVars>>

CheckboxChangeEvent(c, v) == [type |-> "ui-checkbox-change", value |-> v, checked |-> c]

(* The body of toggle() after its disabled test: indeterminate is reset,    *)
(* checked is inverted, and the value handed to handleValueChange, which    *)
(* stores it in _value, is the current value or ''.                         *)
ToggleEffect ==
    /\ lastToggleTime' = now
    /\ indeterminate' = FALSE
    /\ checked' = ~checked
    /\ HandleValueChange(IF checked' THEN value ELSE "")
    /\ Emit(HandleValueChangeEvents(value') \o <<CheckboxChangeEvent(checked', value')>>)

(* The first test of toggle(). *)
ToggleReturnsEarly == disabled

(* toggle(), called by the page's script. *)
Toggle ==
    /\ kind = "checkbox"
    /\ constructed = "yes"
    /\ IF ToggleReturnsEarly
       THEN /\ UNCHANGED <<lastToggleTime, indeterminate, checked, value, formValue,
                           updatePending>>
            /\ Emit(<<>>)
       ELSE ToggleEffect
    /\ last' = Op("toggle")
    /\ UNCHANGED <<fieldConfig, constructed, internals, handleFlags, errorMessage,
                   validationError, isVisible, inputRendered, nativeValue, nativeChecked>>
    /\ UNCHANGED <<modalState, apiVars, disabled, valueAttribute, lastClickTime, now,
                   themeVars, alertVars>>

(* The debounce interval of _handleWrapperClick, 300 ms, in clock units. *)
DebounceWindow == 3

(* Variant: the wrapper's handler does not look at the click's target. *)
WrapperAcceptsAnyTarget(target) ==
    /\ ~disabled
    /\ ~(lastClickTime # 0 /\ now - lastClickTime < DebounceWindow)

(* _handleWrapperClick goes on to toggle: the click did not land on the    *)
(* native input, the checkbox is enabled, and no wrapper click was taken   *)
(* in the last 300 ms.                                                     *)
WrapperAccepts(target) ==
    /\ target # "input"
    /\ ~disabled
    /\ ~(lastClickTime # 0 /\ now - lastClickTime < DebounceWindow)

(* The user clicks the wrapper outside the native input (the box, the      *)
(* label or the description): _handleWrapperClick.                         *)
WrapperClick ==
    /\ kind = "checkbox"
    /\ inputRendered
    /\ IF WrapperAccepts("box")
       THEN /\ lastClickTime' = now
            /\ ToggleEffect
       ELSE /\ UNCHANGED <<lastClickTime, lastToggleTime, indeterminate, checked, value,
                           formValue, updatePending>>
            /\ Emit(<<>>)
    /\ last' = [Op("wrapperClick") EXCEPT
                   !.result = IF WrapperAccepts("box") THEN "toggled" ELSE "ignored"]
    /\ UNCHANGED <<fieldConfig, constructed, internals, handleFlags, errorMessage,
                   validationError, isVisible, inputRendered, nativeValue, nativeChecked>>
    /\ UNCHANGED <<modalState, apiVars, disabled, valueAttribute, now, themeVars, alertVars>>

(* The user clicks the native checkbox of an enabled Checkbox.  The click  *)
(* bubbles to the wrapper, whose handler sees the input as its target, and *)
(* the box flips, so that its change event reaches _handleChange, which    *)
(* takes checked from the box.  c1 and v1 are checked and _value after     *)
(* _handleChange, c2 and v2 after the wrapper's toggle() when it runs.     *)
NativeChange ==
    /\ kind = "checkbox"
    /\ inputRendered
    /\ ~disabled
    /\ LET c1 == ~nativeChecked
           v1 == IF c1 THEN value ELSE ""
           twice == WrapperAccepts("input")
           c2 == ~c1
           v2 == IF c2 THEN v1 ELSE ""
       IN  /\ nativeChecked' = c1
           /\ indeterminate' = FALSE
           /\ checked' = IF twice THEN c2 ELSE c1
           /\ HandleValueChange(IF twice THEN v2 ELSE v1)
           /\ lastClickTime' = IF twice THEN now ELSE lastClickTime
           /\ lastToggleTime' = now
           /\ Emit(HandleValueChangeEvents(v1) \o <<CheckboxChangeEvent(c1, v1)>>
                   \o (IF twice
                       THEN HandleValueChangeEvents(v2) \o <<CheckboxChangeEvent(c2, v2)>>
                       ELSE <<>>))
    /\ last' = Op("nativeChange")
    /\ UNCHANGED <<fieldConfig, constructed, internals, handleFlags, errorMessage,
                   validationError, isVisible, inputRendered, nativeValue>>
    /\ UNCHANGED <<modalState, apiVars, disabled, valueAttribute, now, themeVars, alertVars>>

(* el.checked = c, written by the page's script: a plain reactive property. *)
SetChecked(c) ==
    /\ kind = "checkbox"
    /\ constructed = "yes"
    /\ c # checked
    /\ checked' = c
    /\ updatePending' = TRUE
    /\ Emit(<<>>)
    /\ last' = [Op("setChecked") EXCEPT !.arg = IF c THEN "true" ELSE "false"]
    /\ UNCHANGED <<fieldConfig, constructed, internals, value, formValue, handleFlags,
                   errorMessage, validationError, isVisible, indeterminate, inputRendered,
                   nativeValue, nativeChecked>>
    /\ UNCHANGED <<modalState, apiVars, widgetVars>>

(* 100 ms pass. *)
Tick ==
    /\ now < MaxNow
    /\ now' = now + 1
    /\ Emit(<<>>)
    /\ last' = Op("tick")
    /\ UNCHANGED <<modalState, apiVars, fieldVars, disabled, valueAttribute, lastClickTime,
                   lastToggleTime, themeVars, alertVars>>

(* el.indeterminate = true, written by the page's script. *)
SetIndeterminate ==
    /\ kind = "checkbox"
    /\ constructed = "yes"
    /\ ~indeterminate
    /\ indeterminate' = TRUE
    /\ updatePending' = TRUE
    /\ Emit(<<>>)
    /\ last' = Op("setIndeterminate")
    /\ UNCHANGED <<fieldConfig, constructed, internals, value, formValue, handleFlags,
                   errorMessage, validationError, isVisible, checked, inputRendered,
                   nativeValue, nativeChecked>>
    /\ UNCHANGED <<modalState, apiVars, widgetVars>>

(* A page with one input-like component of any class, under any platform   *)
(* and any constraints, next to a modal that stays closed.                 *)
FieldInit ==
    /\ kind \in Kinds
    /\ platform \in Platforms
    /\ required \in BOOLEAN
    /\ failing \in FailingSets(kind)
    /\ NotConstructed
    /\ NoWidgets
    /\ NoCallYet
    /\ open = FALSE
    /\ changedOpen = FALSE
    /\ closeOnBackdrop = TRUE
    /\ closeOnEscape = TRUE
    /\ preventClose = FALSE
    /\ connected = TRUE
    /\ dialogOpen = FALSE
    /\ nativePreviouslyFocused = Null
    /\ closeQueued = 0
    /\ frames = <<>>
    /\ timers = 0
    /\ previouslyFocusedElement = Null
    /\ focusableElements = <<>>
    /\ currentFocusIndex = 0
    /\ activeElement = "trigger"
    /\ present = {}
    /\ emitted = <<>>
    /\ listening = FALSE
    /\ lastLogged = "none"
    /\ last = Op("init")

FieldNext ==
    \/ Construct
    \/ Update
    \/ \E v \in ValuesOf(kind) : SetValue(v)
    \/ \E v \in TextValues : UserInput(v)
    \/ \E m \in CallerMessages \cup {""} : SetErrorMessage(m)
    \/ Focus
    \/ Blur
    \/ CheckValidity
    \/ FormResetCallback
    \/ ToggleVisibility
    \/ Toggle
    \/ NativeChange
    \/ SetIndeterminate

FieldSpec == FieldInit /\ [][FieldNext]_vars

(***************************************************************************)
(* A Checkbox created from markup, with its clicks and the clock.          *)
(***************************************************************************)
(* The value the markup configures: the value attribute, or the default    *)
(* 'on' of firstUpdated.                                                   *)
ConfiguredValue == IF valueAttribute = Null THEN "on" ELSE valueAttribute

(* What the form receives for the element: nothing until a value is pushed. *)
SubmittedValue == IF formValue = "unset" THEN "" ELSE formValue

(* A <ui-checkbox> of the markup after its construction: the constructors  *)
(* ran, the attributes value, checked, indeterminate and disabled were     *)
(* reflected to the properties (the value through its setter, which pushes *)
(* it to the handle), and the first render is pending.                     *)
CheckboxInit ==
    /\ kind = "checkbox"
    /\ platform \in {"once", "repeatable"}
    /\ required = FALSE
    /\ failing = {}
    /\ constructed = "yes"
    /\ internals = FormAssociatedConstructor(UiElementConstructor).internals
    /\ valueAttribute \in {Null, "accepted"}
    /\ value = IF valueAttribute = Null THEN "" ELSE valueAttribute
    /\ formValue = IF internals # Null /\ valueAttribute # Null THEN valueAttribute ELSE "unset"
    /\ disabled \in BOOLEAN
    /\ checked \in BOOLEAN
    /\ indeterminate \in BOOLEAN
    /\ handleFlags = {}
    /\ errorMessage = ""
    /\ validationError = FALSE
    /\ isVisible = FALSE
    /\ updatePending = TRUE
    /\ inputRendered = FALSE
    /\ nativeValue = ""
    /\ nativeChecked = FALSE
    /\ lastClickTime = 0
    /\ lastToggleTime = 0
    /\ now = 1
    /\ ThemeDefaults
    /\ AlertDefaults
    /\ NoCallYet
    /\ open = FALSE
    /\ changedOpen = FALSE
    /\ closeOnBackdrop = TRUE
    /\ closeOnEscape = TRUE
    /\ preventClose = FALSE
    /\ connected = TRUE
    /\ dialogOpen = FALSE
    /\ nativePreviouslyFocused = Null
    /\ closeQueued = 0
    /\ frames = <<>>
    /\ timers = 0
    /\ previouslyFocusedElement = Null
    /\ focusableElements = <<>>
    /\ currentFocusIndex = 0
    /\ activeElement = "trigger"
    /\ present = {}
    /\ emitted = <<>>
    /\ listening = FALSE
    /\ lastLogged = "none"
    /\ last = Op("init")

CheckboxNext ==
    \/ Update
    \/ Toggle
    \/ WrapperClick
    \/ NativeChange
    \/ \E c \in BOOLEAN : SetChecked(c)
    \/ SetIndeterminate
    \/ Tick

CheckboxSpec == CheckboxInit /\ [][CheckboxNext]_vars

(***************************************************************************)
(* Part 3: the system-theme listener of UiElement                          *)
(* (foundations/base-element.ts).                                          *)
(***************************************************************************)
Themes == {"light", "dark", "auto"}

(* What the handlers of the theme leave alone. *)
themeRest == <<modalState, apiVars, fieldVars, checkboxVars, alertVars>>

(* window.matchMedia(...) returns a new object at every call: an identity  *)
(* that no object still holding a listener has.                            *)
FreshQuery(alive) == CHOOSE q \in 1..MaxQueries : q \notin alive

(* _teardownThemeListener(): the listener is removed from the object in    *)
(* _mediaQuery, if there is one; _mediaQuery itself is kept.               *)
TeardownThemeListener == IF mediaQuery = 0 THEN registered ELSE registered \ {mediaQuery}

(* _setupThemeListener() with this.theme = t: teardown first, then a new   *)
(* MediaQueryList with the listener when the theme is 'auto'.              *)
SetupThemeListener(t) ==
    LET rest == TeardownThemeListener
    IN  IF t = "auto"
        THEN /\ mediaQuery' = FreshQuery(rest)
             /\ registered' = rest \cup {FreshQuery(rest)}
        ELSE /\ mediaQuery' = mediaQuery
             /\ registered' = rest

(* The theme _applyTheme() writes to data-theme. *)
EffectiveTheme(t, dark) == IF t = "auto" THEN (IF dark THEN "dark" ELSE "light") ELSE t

(* The element is inserted into the document: connectedCallback().  The    *)
(* first connection enables the reactive updates.                          *)
Connect ==
    /\ ~hostConnected
    /\ Cardinality(TeardownThemeListener) < MaxQueries
    /\ hostConnected' = TRUE
    /\ everConnected' = TRUE
    /\ SetupThemeListener(theme)
    /\ Emit(<<>>)
    /\ last' = Op("connect")
    /\ UNCHANGED <<theme, themeChanged, prefersDark, dataTheme>>
    /\ UNCHANGED themeRest

(* The element is removed from the document: disconnectedCallback(). *)
Disconnect ==
    /\ hostConnected
    /\ hostConnected' = FALSE
    /\ registered' = TeardownThemeListener
    /\ Emit(<<>>)
    /\ last' = Op("disconnect")
    /\ UNCHANGED <<theme, themeChanged, everConnected, mediaQuery, prefersDark, dataTheme>>
    /\ UNCHANGED themeRest

(* el.theme = t, written by the page's script: the update runs later. *)
SetTheme(t) ==
    /\ t # theme
    /\ theme' = t
    /\ themeChanged' = TRUE
    /\ Emit(<<>>)
    /\ last' = [Op("setTheme") EXCEPT !.arg = t]
    /\ UNCHANGED <<hostConnected, everConnected, mediaQuery, registered, prefersDark, dataTheme>>
    /\ UNCHANGED themeRest

(* updated(changedProperties) with 'theme' among them.  Updates run once   *)
(* the element has been connected, whether it is still connected or not.   *)
ThemeUpdated ==
    /\ themeChanged
    /\ everConnected
    /\ Cardinality(TeardownThemeListener) < MaxQueries
    /\ themeChanged' = FALSE
    /\ dataTheme' = EffectiveTheme(theme, prefersDark)
    /\ SetupThemeListener(theme)
    /\ Emit(<<>>)
    /\ last' = Op("themeUpdated")
    /\ UNCHANGED <<theme, hostConnected, everConnected, prefersDark>>
    /\ UNCHANGED themeRest

(* The system colour scheme changes: every MediaQueryList holding the      *)
(* listener calls _handleSystemThemeChange.                                *)
SystemThemeChange ==
    /\ prefersDark' = ~prefersDark
    /\ dataTheme' = IF registered # {} /\ theme = "auto"
                    THEN EffectiveTheme(theme, ~prefersDark)
                    ELSE dataTheme
    /\ Emit(<<>>)
    /\ last' = [Op("systemThemeChange") EXCEPT
                   !.result = IF registered # {} THEN "heard" ELSE "unheard"]
    /\ UNCHANGED <<theme, themeChanged, hostConnected, everConnected, mediaQuery, registered>>
    /\ UNCHANGED themeRest

(* An element built on UiElement after its construction, with any theme    *)
(* attribute: the initial property values are pending as changed, and the  *)
(* element is not in the document yet.                                     *)
ThemeInit ==
    /\ theme \in Themes
    /\ themeChanged = TRUE
    /\ hostConnected = FALSE
    /\ everConnected = FALSE
    /\ mediaQuery = 0
    /\ registered = {}
    /\ prefersDark \in BOOLEAN
    /\ dataTheme = Null
    /\ CheckboxDefaults
    /\ AlertDefaults
    /\ kind = "input"
    /\ platform = "once"
    /\ required = FALSE
    /\ failing = {}
    /\ NotConstructed
    /\ NoCallYet
    /\ open = FALSE
    /\ changedOpen = FALSE
    /\ closeOnBackdrop = TRUE
    /\ closeOnEscape = TRUE
    /\ preventClose = FALSE
    /\ connected = TRUE
    /\ dialogOpen = FALSE
    /\ nativePreviouslyFocused = Null
    /\ closeQueued = 0
    /\ frames = <<>>
    /\ timers = 0
    /\ previouslyFocusedElement = Null
    /\ focusableElements = <<>>
    /\ currentFocusIndex = 0
    /\ activeElement = "trigger"
    /\ present = {}
    /\ emitted = <<>>
    /\ listening = FALSE
    /\ lastLogged = "none"
    /\ last = Op("init")

ThemeNext ==
    \/ Connect
    \/ Disconnect
    \/ \E t \in Themes : SetTheme(t)
    \/ ThemeUpdated
    \/ SystemThemeChange

ThemeSpec == ThemeInit /\ [][ThemeNext]_vars

(***************************************************************************)
(* Part 4: the Alert (components/alert/alert.ts).                          *)
(***************************************************************************)
Variants == {"info", "error"}

(* What the handlers of the alert leave alone. *)
alertRest == <<modalState, apiVars, fieldVars, checkboxVars, themeVars>>

AlertDismissEvent(v) == [type |-> "ui-alert-dismiss", variant |-> v]

(* _handleDismiss(): the event, with the variant the alert has now. *)
HandleDismiss == Emit(<<AlertDismissEvent(variant)>>)

(* Variant: a dismissal cancels the timers that are still pending. *)
TimersAfterDismissCancelled == <<>>

(* The pending timers after a dismissal: dismiss() clears none. *)
TimersAfterDismiss == dismissTimers

(* dismiss(), called by the page's script. *)
Dismiss ==
    /\ HandleDismiss
    /\ dismissTimers' = TimersAfterDismiss
    /\ last' = Op("dismiss")
    /\ UNCHANGED <<variant, dismissible, inDocument, started, resolved>>
    /\ UNCHANGED alertRest

(* The user clicks the dismiss button, rendered when dismissible is set. *)
DismissClick ==
    /\ dismissible
    /\ inDocument
    /\ HandleDismiss
    /\ dismissTimers' = TimersAfterDismiss
    /\ last' = Op("dismissClick")
    /\ UNCHANGED <<variant, dismissible, inDocument, started, resolved>>
    /\ UNCHANGED alertRest

(* autoDismiss(d): a promise whose executor starts a timer of d. *)
AutoDismiss(d) ==
    /\ started < MaxCalls
    /\ started' = started + 1
    /\ dismissTimers' = Append(dismissTimers, [call |-> started + 1, remaining |-> d])
    /\ Emit(<<>>)
    /\ last' = [Op("autoDismiss") EXCEPT !.arg = IF d = 0 THEN "now" ELSE "later"]
    /\ UNCHANGED <<variant, dismissible, inDocument, resolved>>
    /\ UNCHANGED alertRest

(* The timers whose delay has elapsed. *)
Due == { i \in 1..Len(dismissTimers) : dismissTimers[i].remaining = 0 }

RemoveAt(l, i) == SubSeq(l, 1, i - 1) \o SubSeq(l, i + 1, Len(l))

(* The oldest due timer runs its callback: this.dismiss(), then resolve(). *)
TimerFires ==
    /\ Due # {}
    /\ LET i == CHOOSE j \in Due : \A k \in Due : j <= k
       IN  /\ resolved' = resolved \cup {dismissTimers[i].call}
           /\ dismissTimers' = RemoveAt(dismissTimers, i)
    /\ HandleDismiss
    /\ last' = Op("timerFires")
    /\ UNCHANGED <<variant, dismissible, inDocument, started>>
    /\ UNCHANGED alertRest

(* One clock unit passes while timers are pending and none is due. *)
AlertTick ==
    /\ dismissTimers # <<>>
    /\ Due = {}
    /\ dismissTimers' = [i \in 1..Len(dismissTimers) |->
                           [dismissTimers[i] EXCEPT !.remaining = @ - 1]]
    /\ Emit(<<>>)
    /\ last' = Op("tick")
    /\ UNCHANGED <<variant, dismissible, inDocument, started, resolved>>
    /\ UNCHANGED alertRest

(* el.variant = v, written by the page's script. *)
SetVariant(v) ==
    /\ v # variant
    /\ variant' = v
    /\ Emit(<<>>)
    /\ last' = [Op("setVariant") EXCEPT !.arg = v]
    /\ UNCHANGED <<dismissible, inDocument, dismissTimers, started, resolved>>
    /\ UNCHANGED alertRest

(* The page removes the alert from the document, as a listener of          *)
(* ui-alert-dismiss typically does.                                        *)
RemoveAlert ==
    /\ inDocument
    /\ inDocument' = FALSE
    /\ Emit(<<>>)
    /\ last' = Op("removeAlert")
    /\ UNCHANGED <<variant, dismissible, dismissTimers, started, resolved>>
    /\ UNCHANGED alertRest

AlertInit ==
    /\ variant \in Variants
    /\ dismissible \in BOOLEAN
    /\ inDocument = TRUE
    /\ dismissTimers = <<>>
    /\ started = 0
    /\ resolved = {}
    /\ CheckboxDefaults
    /\ ThemeDefaults
    /\ kind = "input"
    /\ platform = "once"
    /\ required = FALSE
    /\ failing = {}
    /\ NotConstructed
    /\ NoCallYet
    /\ open = FALSE
    /\ changedOpen = FALSE
    /\ closeOnBackdrop = TRUE
    /\ closeOnEscape = TRUE
    /\ preventClose = FALSE
    /\ connected = TRUE
    /\ dialogOpen = FALSE
    /\ nativePreviouslyFocused = Null
    /\ closeQueued = 0
    /\ frames = <<>>
    /\ timers = 0
    /\ previouslyFocusedElement = Null
    /\ focusableElements = <<>>
    /\ currentFocusIndex = 0
    /\ activeElement = "trigger"
    /\ present = {}
    /\ emitted = <<>>
    /\ listening = FALSE
    /\ lastLogged = "none"
    /\ last = Op("init")

AlertNext ==
    \/ Dismiss
    \/ DismissClick
    \/ \E d \in 0..MaxDelay : AutoDismiss(d)
    \/ TimerFires
    \/ AlertTick
    \/ \E v \in Variants : SetVariant(v)
    \/ RemoveAlert

(* The event loop runs a due timer, and time passes. *)
AlertFairness == WF_vars(TimerFires) /\ WF_vars(AlertTick)

AlertSpec == AlertInit /\ [][AlertNext]_vars /\ AlertFairness


(***************************************************************************)
(* Properties of the modal's close protocol.                               *)
(***************************************************************************)
HasType(evs, t) == \E i \in 1..Len(evs) : evs[i].type = t

CloseRequestOps == {"backdropClick", "closeButtonClick", "escape", "close"}

ReasonOf(op) ==
    CASE op = "backdropClick" -> "backdrop"
      [] op = "closeButtonClick" -> "button"
      [] op = "escape" -> "escape"
      [] op = "close" -> "programmatic"

(* C1: on a shown, open modal, a close request of any reason whose         *)
(* ui-modal-before-close listener invoked the cancellation callback leaves *)
(* open true and the dialog surface shown, and emits no ui-modal-close.    *)
C1_CancelledRequestKeepsModalOpen ==
    [][ (open /\ dialogOpen /\ last'.op \in CloseRequestOps /\ last'.cancelled)
        => (open' /\ dialogOpen' /\ ~HasType(emitted', "ui-modal-close")) ]_modalVars

(* C2: an uncancelled close request on an open modal clears open and emits *)
(* ui-modal-close carrying the reason of the request and, as returnValue,  *)
(* exactly the value handed to close().                                    *)
C2_UncancelledCloseEmitsReason ==
    [][ (open /\ last'.op \in CloseRequestOps
              /\ HasType(emitted', "ui-modal-before-close") /\ ~last'.cancelled)
        => (/\ ~open'
            /\ emitted' = <<BeforeCloseEvent(ReasonOf(last'.op)),
                            CloseEvent(ReasonOf(last'.op), last'.returnValue)>>) ]_modalVars

C2_Witness ==
    /\ last.op = "close" /\ ~last.cancelled /\ last.returnValue = "num1"
    /\ ~open /\ changedOpen /\ closeQueued > 0
    /\ emitted = <<BeforeCloseEvent("programmatic"), CloseEvent("programmatic", "num1")>>

(* C3: with preventClose set, a close-button click and an Escape press on  *)
(* an open modal change nothing and emit nothing, while close() still      *)
(* emits the cancellable before-close and closes when it is not cancelled. *)
C3_PreventCloseBlocksButtonAndEscape ==
    /\ [][ (preventClose /\ open /\ dialogOpen /\ last'.op \in {"closeButtonClick", "escape"})
           => (open' /\ dialogOpen' /\ emitted' = <<>>) ]_modalVars
    /\ [][ (preventClose /\ open /\ last'.op = "close")
           => (/\ emitted' # <<>>
               /\ emitted'[1] = BeforeCloseEvent("programmatic")
               /\ ~last'.cancelled => (~open' /\ HasType(emitted', "ui-modal-close"))) ]_modalVars

C3_Witness ==
    /\ preventClose /\ open /\ dialogOpen
    /\ last.op = "closeButtonClick" /\ emitted = <<>>

(* C4 as stated: a shown modal's open flag never goes from true to false   *)
(* unless a ui-modal-before-close was emitted for that close and not       *)
(* cancelled.                                                              *)
C4_EveryCloseOfferedForCancellation ==
    [][ (open /\ dialogOpen /\ ~open')
        => (HasType(emitted', "ui-modal-before-close") /\ ~last'.cancelled) ]_modalVars

(* C4 amended: open goes from true to false only through an uncancelled    *)
(* close request, through a direct write open = false, or in the handler   *)
(* of the native dialog's close event; the last two emit no before-close.  *)
C4_CloseOnlyByRequestWriteOrNativeClose ==
    [][ (open /\ ~open')
        => \/ /\ last'.op \in CloseRequestOps
              /\ ~last'.cancelled
              /\ emitted' # <<>>
              /\ emitted'[1] = BeforeCloseEvent(ReasonOf(last'.op))
           \/ /\ last'.op \in {"setOpenFalse", "nativeClose"}
              /\ ~HasType(emitted', "ui-modal-before-close") ]_modalVars

C4_Witness ==
    /\ last.op = "setOpenFalse" /\ ~open /\ changedOpen /\ dialogOpen /\ emitted = <<>>

(* C5 as stated: a backdrop click issues a close request exactly when      *)
(* closeOnBackdrop is set, whatever preventClose is.                       *)
C5_BackdropGatedByCloseOnBackdropAlone ==
    [][ (dialogOpen /\ last'.op = "backdropClick")
        => (HasType(emitted', "ui-modal-before-close") <=> closeOnBackdrop) ]_modalVars

(* C5 amended: a backdrop click issues a 'backdrop' close request exactly  *)
(* when closeOnBackdrop is set and preventClose is clear, and otherwise    *)
(* changes and emits nothing; a click inside the container never issues a  *)
(* close request.                                                          *)
C5_BackdropGatedByBothFlags ==
    /\ [][ (dialogOpen /\ last'.op = "backdropClick")
           => IF closeOnBackdrop /\ ~preventClose
              THEN emitted' # <<>> /\ emitted'[1] = BeforeCloseEvent("backdrop")
              ELSE emitted' = <<>> /\ open' = open /\ dialogOpen' ]_modalVars
    /\ [][ (last'.op = "containerClick")
           => (emitted' = <<>> /\ open' = open /\ dialogOpen' = dialogOpen) ]_modalVars

C5_Witness ==
    /\ closeOnBackdrop /\ preventClose /\ open /\ dialogOpen
    /\ last.op = "backdropClick" /\ emitted = <<>>

(* C6: with closeOnEscape clear, Escape on an open modal leaves it open    *)
(* and emits nothing; with closeOnEscape set and preventClose clear it     *)
(* issues an 'escape' close request, which closes when not cancelled.      *)
C6_EscapeGatedByCloseOnEscape ==
    [][ (open /\ dialogOpen /\ last'.op = "escape")
        => /\ ~closeOnEscape => (open' /\ dialogOpen' /\ emitted' = <<>>)
           /\ (closeOnEscape /\ ~preventClose)
                => /\ emitted' # <<>>
                   /\ emitted'[1] = BeforeCloseEvent("escape")
                   /\ ~last'.cancelled
                        => /\ ~open' /\ ~dialogOpen'
                           /\ emitted' = <<BeforeCloseEvent("escape"),
                                           CloseEvent("escape", "undefined")>> ]_modalVars

C6_Witness ==
    /\ ~closeOnEscape /\ ~preventClose /\ open /\ dialogOpen
    /\ last.op = "escape" /\ emitted = <<>>


(***************************************************************************)
(* Properties of the modal's focus management.                             *)
(***************************************************************************)
(* C7 as stated: the frame callback left by an opening recomputes the      *)
(* focusable list and moves focus to its first entry, or to the modal      *)
(* container when the list is empty; the opening emits exactly one         *)
(* ui-modal-open event, with reason 'programmatic'.                        *)
C7_OpenFocusesFirstOrContainer ==
    /\ [][ (open /\ dialogOpen /\ last'.op = "openFrame")
           => /\ focusableElements' = ComputeFocusable
              /\ activeElement' = IF Len(focusableElements') > 0
                                  THEN focusableElements'[1] ELSE "container" ]_modalVars
    /\ [][ (open /\ last'.op = "updated")
           => (emitted' = <<OpenEvent>> /\ Len(frames') = Len(frames) + 1) ]_modalVars

C9_ReferenceReleasedAfterClose ==
    (~open /\ ~dialogOpen /\ ~changedOpen /\ closeQueued = 0 /\ frames = <<>> /\ timers = 0)
        => previouslyFocusedElement = Null

RECURSIVE IterateNext(_, _, _)
IterateNext(i, n, k) == IF k = 0 THEN i ELSE IterateNext(FocusNextIndex(i, n), n, k - 1)

C11_ReturnedArrayIsACopy ==
    /\ [][ (last'.op = "getFocusableElements")
           => (/\ last'.result = "array"
               /\ returnedArray' = focusableElements'
               /\ ~returnedIsInternal') ]_vars
    /\ [][ (last'.op = "callerMutates")
           => UNCHANGED <<focusableElements, currentFocusIndex>> ]_vars

C11_Witness ==
    /\ last.op = "callerMutates" /\ last.arg = "pop"
    /\ open /\ dialogOpen
    /\ Len(focusableElements) >= 2 /\ currentFocusIndex >= 1
    /\ Len(returnedArray) < Len(focusableElements)

HelperOps == {"submitForm", "validateForm", "getFormData"}

(* C12: submitForm, validateForm and getFormData called with a selector    *)
(* that matches no descendant form return false, false and null, without   *)
(* throwing and without changing the open flag, the focus list or the      *)
(* events emitted.                                                         *)
C12_NoFormGivesFailureIndicator ==
    [][ (last'.op \in HelperOps /\ ~IsForm(last'.arg))
        => (/\ last'.result = IF last'.op = "getFormData" THEN "null" ELSE "false"
            /\ emitted' = <<>>
            /\ UNCHANGED <<open, changedOpen, dialogVars, focusVars, activeElement>>) ]_vars


(***************************************************************************)
(* Properties of form association.                                         *)
(***************************************************************************)
(* C13: assigning the value property stores the new value and pushes it to *)
(* the form participation handle (when the component holds one) but emits  *)
(* no ui-input-change; a user edit, which reaches handleValueChange(v),    *)
(* stores v, pushes it to the handle and emits ui-input-change with        *)
(* detail { value: v }.                                                    *)
C13_OnlyUserEditsAnnounceValueChange ==
    /\ [][ (last'.op = "setValue")
           => (/\ value' = last'.arg
               /\ formValue' = IF internals # Null THEN last'.arg ELSE formValue
               /\ ~HasType(emitted', "ui-input-change")) ]_vars
    /\ [][ (last'.op = "userInput")
           => (/\ value' = last'.arg
               /\ formValue' = IF internals # Null THEN last'.arg ELSE formValue
               /\ emitted' # <<>>
               /\ emitted'[1] = ChangeEvent(last'.arg)) ]_vars

C13_Witness ==
    /\ last.op = "setValue" /\ last.arg = "ok"
    /\ internals # Null /\ value = "ok" /\ formValue = "ok" /\ emitted = <<>>

(* C14: constructing a form-associated component never throws; when the    *)
(* capability is missing or attaching fails, the handle is null and        *)
(* hasFormIntegration is false.                                            *)
C14_ConstructionNeverThrows ==
    /\ constructed # "threw"
    /\ (constructed = "yes" /\ platform \in {"absent", "refuses"})
         => (internals = Null /\ ~HasFormIntegration)

(* C15: where the platform hands out one handle per element and throws at  *)
(* a second attach, a constructed Input, PasswordInput or Checkbox holds a *)
(* handle and hasFormIntegration is true.                                  *)
C15_StandardPlatformGivesHandle ==
    (platform = "once" /\ constructed = "yes") => (internals # Null /\ HasFormIntegration)

(***************************************************************************)
(* Properties of validation.                                               *)
(***************************************************************************)
(* C16: a focus event clears errorMessage only when the message displayed  *)
(* was produced by the validation pass; a message set by the caller is     *)
(* still displayed after the focus event.                                  *)
C16_FocusKeepsCallerMessage ==
    [][ (last'.op = "focus" /\ errorMessage \in CallerMessages)
        => errorMessage' = errorMessage ]_vars

(* C17: when several native constraints fail at once, the validation pass  *)
(* of Input and of PasswordInput reports the one flag and message that     *)
(* come first in valueMissing > typeMismatch/tooShort > tooLong >          *)
(* patternMismatch > rangeOverflow/rangeUnderflow > customError.           *)
C17_FirstFailingConstraintByFixedPriority ==
    [][ (/\ kind \in {"input", "password"}
         /\ last'.op \in {"blur", "checkValidity"}
         /\ inputRendered /\ NativeValidity # {})
        => LET order == <<"valueMissing", "typeMismatch", "tooShort", "tooLong",
                          "patternMismatch", "rangeOverflow", "rangeUnderflow">>
               hits == { i \in 1..Len(order) : order[i] \in NativeValidity }
               first == IF hits = {} THEN "customError"
                        ELSE order[CHOOSE i \in hits : \A j \in hits : i <= j]
           IN  /\ validationError'
               /\ errorMessage' = Message(kind, first)
               /\ internals # Null => handleFlags' = {first} ]_vars

ValidationOps == {"blur", "checkValidity"}

(* C18 as stated: when the validation pass finds the field valid, no       *)
(* validity flag remains set and no error message remains displayed,       *)
(* whatever message was displayed before.                                  *)
C18_ValidPassClearsEveryMessage ==
    [][ (last'.op \in ValidationOps /\ inputRendered /\ NativeValidity = {})
        => (handleFlags' = {} /\ errorMessage' = "") ]_vars

(* C18 amended: when the validation pass finds the field valid, no         *)
(* validity flag remains set on the handle, the validation-error flag is   *)
(* clear, and the message displayed before is cleared if that flag marked  *)
(* it as produced by validation and is kept otherwise.                     *)
C18_ValidPassClearsFlagsAndValidationMessage ==
    [][ (last'.op \in ValidationOps /\ inputRendered /\ NativeValidity = {})
        => (/\ handleFlags' = {}
            /\ ~validationError'
            /\ errorMessage' = IF validationError THEN "" ELSE errorMessage) ]_vars

C18_Witness ==
    /\ last.op = "blur" /\ inputRendered /\ NativeValidity = {}
    /\ internals # Null /\ handleFlags = {}
    /\ errorMessage = "Manual error" /\ ~validationError

(* C19: a required Input with no value shows no error on its initial       *)
(* render; a blur (after a focus) sets errorMessage to 'This field is      *)
(* required' and checkValidity() then returns false; once a text that      *)
(* meets the other constraints is set and rendered, checkValidity()        *)
(* returns true and clears the message validation had produced.            *)
C19_RequiredInputScenario ==
    /\ errorMessage = ""
    /\ [][ (kind = "input" /\ required /\ last'.op \in {"construct", "update"})
           => errorMessage' = errorMessage ]_vars
    /\ [][ (kind = "input" /\ required /\ inputRendered /\ nativeValue = ""
                            /\ last'.op = "blur")
           => (errorMessage' = "This field is required" /\ validationError') ]_vars
    /\ [][ (kind = "input" /\ required /\ inputRendered /\ nativeValue = ""
                            /\ last'.op = "checkValidity")
           => (last'.result = "false" /\ errorMessage' = "This field is required") ]_vars
    /\ [][ (kind = "input" /\ required /\ inputRendered /\ ~updatePending
                            /\ value # "" /\ (value = "bad" => failing = {})
                            /\ last'.op = "checkValidity")
           => (/\ last'.result = "true"
               /\ ~validationError'
               /\ validationError => errorMessage' = "") ]_vars

C19_Witness ==
    /\ kind = "input" /\ required /\ inputRendered /\ ~updatePending
    /\ last.op = "checkValidity" /\ last.result = "true"
    /\ value = "ok" /\ nativeValue = "ok"
    /\ errorMessage = "" /\ ~validationError
    /\ internals # Null /\ handleFlags = {}

(* C20: formResetCallback, from any prior state, sets value to the empty   *)
(* string and clears errorMessage and the validation-error flag;           *)
(* PasswordInput also returns to hidden visibility, and Checkbox also      *)
(* becomes unchecked and determinate.                                      *)
C20_FormResetClearsValueAndErrors ==
    [][ (last'.op = "formReset")
        => (/\ value' = ""
            /\ errorMessage' = ""
            /\ ~validationError'
            /\ kind = "password" => ~isVisible'
            /\ kind = "checkbox" => (~checked' /\ ~indeterminate')) ]_vars

C20_Witness ==
    /\ last.op = "formReset" /\ kind = "password"
    /\ value = "" /\ errorMessage = "" /\ ~validationError /\ ~isVisible
    /\ nativeValue = "bad" /\ updatePending


(***************************************************************************)
(* Properties of the Checkbox.                                             *)
(***************************************************************************)
CountType(evs, t) == Cardinality({ i \in 1..Len(evs) : evs[i].type = t })

(* C21: toggle() on an enabled checkbox whose indeterminate is true leaves *)
(* indeterminate false and checked true, whatever checked was; toggle() on *)
(* a checked, determinate checkbox leaves it unchecked; toggle() on a      *)
(* disabled checkbox changes nothing and emits nothing.                    *)
C21_ToggleFromIndeterminateChecks ==
    [][last'.op = "toggle" =>
         IF disabled
         THEN /\ UNCHANGED <<checked, indeterminate, value, formValue>>
              /\ emitted' = <<>>
         ELSE /\ indeterminate => (~indeterminate' /\ checked')
              /\ (~indeterminate /\ checked) => ~checked']_vars

(* C22: once the checkbox is rendered, every ui-checkbox-change event      *)
(* carries the configured value when its checked is true and the empty     *)
(* string when its checked is false.                                       *)
C22_ChangeEventCarriesConfiguredValue ==
    [][inputRendered =>
         \A i \in 1..Len(emitted') :
            emitted'[i].type = "ui-checkbox-change" =>
               emitted'[i].value = IF emitted'[i].checked THEN ConfiguredValue ELSE ""]_vars

(* C23, as stated: a click on the native input gives one toggle and one    *)
(* ui-checkbox-change, and a wrapper click that arrives less than 300 ms   *)
(* after the last toggle, whatever caused it, is ignored; any other click  *)
(* on an enabled checkbox gives one toggle and one event.                  *)
C23_ClickWithinWindowOfAnyToggleIgnored ==
    [][/\ last'.op = "nativeChange" =>
            /\ CountType(emitted', "ui-checkbox-change") = 1
            /\ checked' = ~nativeChecked
       /\ (last'.op = "wrapperClick" /\ ~disabled) =>
            IF lastToggleTime # 0 /\ now - lastToggleTime < DebounceWindow
            THEN emitted' = <<>> /\ checked' = checked
            ELSE CountType(emitted', "ui-checkbox-change") = 1 /\ checked' = ~checked]_vars

(* C23, amended: a click on the native input gives one toggle and one      *)
(* ui-checkbox-change and leaves the wrapper's timestamp alone; a wrapper  *)
(* click on an enabled checkbox is ignored exactly when it arrives less    *)
(* than 300 ms after the last wrapper click that was taken, and otherwise  *)
(* gives one toggle and one event.  Toggles made by toggle() or through    *)
(* the native input do not start the interval.                             *)
C23_ClickWithinWindowOfWrapperClickIgnored ==
    [][/\ last'.op = "nativeChange" =>
            /\ CountType(emitted', "ui-checkbox-change") = 1
            /\ checked' = ~nativeChecked
            /\ lastClickTime' = lastClickTime
       /\ (last'.op = "wrapperClick" /\ ~disabled) =>
            IF lastClickTime # 0 /\ now - lastClickTime < DebounceWindow
            THEN emitted' = <<>> /\ checked' = checked
            ELSE CountType(emitted', "ui-checkbox-change") = 1 /\ checked' = ~checked]_vars

(* A wrapper click on an enabled checkbox was ignored, less than 300 ms    *)
(* after the wrapper click that was last taken.                            *)
C23_Witness ==
    /\ last.op = "wrapperClick"
    /\ last.result = "ignored"
    /\ ~disabled
    /\ lastClickTime # 0
    /\ now - lastClickTime < DebounceWindow
    /\ emitted = <<>>

(* C26: a checkbox holding a form participation handle has submitted its   *)
(* configured value when it is checked and nothing when it is not.         *)
C26_FormValueFollowsChecked ==
    (kind = "checkbox" /\ constructed = "yes" /\ internals # Null) =>
        SubmittedValue = IF checked THEN ConfiguredValue ELSE ""


(***************************************************************************)
(* Properties of the theme listener.                                       *)
(***************************************************************************)
(* C24: whenever no update of the theme is waiting to run, the listener is *)
(* registered exactly when the element is connected and its theme is       *)
(* 'auto', and on one MediaQueryList at most.                              *)
C24_ListenerIffConnectedAndAuto ==
    ~(themeChanged /\ everConnected) =>
        /\ (registered # {}) <=> (hostConnected /\ theme = "auto")
        /\ Cardinality(registered) <= 1


(***************************************************************************)
(* Properties of the Alert.                                                *)
(***************************************************************************)
PendingCalls(l) == { l[i].call : i \in 1..Len(l) }

DismissOps == {"dismiss", "dismissClick", "timerFires"}

(* C25: every autoDismiss() call is eventually resolved; a promise is      *)
(* resolved only by the step that emits one ui-alert-dismiss carrying the  *)
(* alert's variant; a timer leaves the pending ones only by firing; and a  *)
(* dismissal changes neither the alert's properties nor its place in the   *)
(* document.                                                               *)
C25_AutoDismissFiresAndOnlyThenResolves ==
    /\ \A n \in 1..MaxCalls : (started >= n) ~> (n \in resolved)
    /\ [][/\ (resolved' # resolved) =>
               (/\ Cardinality(resolved' \ resolved) = 1
                /\ emitted' = <<AlertDismissEvent(variant)>>)
          /\ (last'.op # "timerFires") =>
               (PendingCalls(dismissTimers) \subseteq PendingCalls(dismissTimers'))
          /\ (last'.op \in DismissOps) =>
               UNCHANGED <<variant, dismissible, inDocument>>]_vars

(* A timer fired after the alert had been removed from the document, and   *)
(* resolved the second of two calls.                                       *)
C25_Witness ==
    /\ last.op = "timerFires"
    /\ resolved = {1, 2}
    /\ emitted = <<AlertDismissEvent(variant)>>
    /\ ~inDocument


(***************************************************************************)
(* Properties of the modal's event trace and of its deferred work.         *)
(***************************************************************************)
(* The events evs continue a trace whose last open or close event was l in *)
(* strict alternation, a trace starting with ui-modal-open.                *)
RECURSIVE Alternates(_, _)
Alternates(l, evs) ==
    IF evs = <<>> THEN TRUE
    ELSE IF Head(evs).type \notin OpenCloseTypes THEN Alternates(l, Tail(evs))
    ELSE /\ Head(evs).type # l
         /\ (l = "none") => (Head(evs).type = "ui-modal-open")
         /\ Alternates(Head(evs).type, Tail(evs))

(* C27: in the trace of events, ui-modal-open and ui-modal-close strictly  *)
(* alternate, starting with ui-modal-open, so that no closing of the modal *)
(* is announced by more than one ui-modal-close.  The calls of close() on  *)
(* a modal whose dialog is not shown are set aside here; C28 is about them. *)
C27_OpenAndCloseEventsAlternate ==
    [][~(last'.op = "close" /\ ~dialogOpen) => Alternates(lastLogged, emitted')]_vars

(* C28: close() on a modal whose open is false changes nothing of the      *)
(* modal and dispatches no event.                                          *)
C28_CloseWhileClosedDoesNothing ==
    [][(last'.op = "close" /\ ~open) =>
          (emitted' = <<>> /\ UNCHANGED modalState)]_vars

FrameOps == {"openFrame", "slotFrame"}

(* C29, as stated: a frame callback that runs when the dialog has been     *)
(* closed has no effect on the focus or on the focusable list.             *)
C29_FrameAfterCloseHasNoEffect ==
    [][(last'.op \in FrameOps /\ ~dialogOpen) =>
          UNCHANGED <<activeElement, focusableElements, currentFocusIndex>>]_vars

(* C29, amended: a frame callback that runs when the dialog has been       *)
(* closed leaves the focus where it is and an empty focusable list; and no *)
(* step of the modal moves the focus to its content or to the modal while  *)
(* the dialog is not shown.                                                *)
C29_FrameAfterCloseMovesNoFocus ==
    [][/\ (last'.op \in FrameOps /\ ~dialogOpen) =>
            (activeElement' = activeElement /\ focusableElements' = <<>>)
       /\ (~dialogOpen' /\ activeElement' \in Inside) =>
            (activeElement' = activeElement)]_vars

(* The frame callback left by an opening ran after the dialog was closed,  *)
(* with focusable content in the modal, and emptied the list.              *)
C29_Witness ==
    /\ last.op = "openFrame"
    /\ ~dialogOpen
    /\ ~open
    /\ present # {}
    /\ focusableElements = <<>>
    /\ activeElement \notin Inside


(***************************************************************************)
(* Properties of the text inputs' change event.                            *)
(***************************************************************************)
(* C30: a user edit of an Input or a PasswordInput dispatches exactly one  *)
(* ui-input-change, and that event carries the native input's text.        *)
C30_OneChangeEventPerUserInput ==
    [][last'.op = "userInput" =>
          /\ CountType(emitted', "ui-input-change") = 1
          /\ \A i \in 1..Len(emitted') :
                emitted'[i].type = "ui-input-change" => emitted'[i].value = nativeValue']_vars

====
